---------------------------- MODULE Spec2Model ----------------------------
(***************************************************************************)
(* ListIt (server.js): the location filter of GET /api/listings.           *)
(*                                                                         *)
(* A JavaScript string is a sequence of one-character strings, so that     *)
(* lowercasing, trimming, splitting and the regular expression of          *)
(* normLetters are computed character by character, as the engine does.    *)
(* A missing value (undefined / null) is the sentinel `undefined`, which   *)
(* is no valid string: its only element has more than one character.       *)
(***************************************************************************)
EXTENDS Integers, Sequences, FiniteSets, TLC

VARIABLES
    listings,   \* the rows of table listings: a set of records
    images,     \* the rows of table listing_images, per listing id: a sequence
    nextId,     \* AUTOINCREMENT of listings.id: the next id handed out
    resp,       \* the request last answered and its response
    call,       \* a direct call of one helper function: its name and arguments
    ret,        \* <<>> while the call is pending, <<value>> once it returned
    conversations,  \* the rows of table conversations
    messages,       \* the rows of table messages
    message_images, \* the rows of table message_images
    users           \* the rows of table users

\* the tables of the conversations
chat == <<conversations, messages, message_images>>

vars == <<listings, images, nextId, resp, call, ret, chat, users>>

---------------------------------------------------------------------------
(* JavaScript string primitives used by the helpers *)

undefined == <<"undefined">>

AZ == {"a","b","c","d","e","f","g","h","i","j","k","l","m",
       "n","o","p","q","r","s","t","u","v","w","x","y","z"}

Uppers == <<"A","B","C","D","E","F","G","H","I","J","K","L","M",
            "N","O","P","Q","R","S","T","U","V","W","X","Y","Z">>

Lowers == <<"a","b","c","d","e","f","g","h","i","j","k","l","m",
            "n","o","p","q","r","s","t","u","v","w","x","y","z">>

WhiteSpace == {" ", "\t", "\n", "\r"}

Range(f) == {f[i] : i \in DOMAIN f}

SetMin(S) == CHOOSE x \in S : \A y \in S : x <= y

SetMax(S) == CHOOSE x \in S : \A y \in S : y <= x

\* String.prototype.toLowerCase, one character
toLowerChar(c) ==
    IF \E i \in DOMAIN Uppers : Uppers[i] = c
    THEN Lowers[CHOOSE i \in DOMAIN Uppers : Uppers[i] = c]
    ELSE c

\* String.prototype.toLowerCase
toLowerCase(s) == [i \in DOMAIN s |-> toLowerChar(s[i])]

\* String.prototype.trim
trim(s) ==
    LET keep == {i \in DOMAIN s : s[i] \notin WhiteSpace}
    IN  IF keep = {} THEN <<>> ELSE SubSeq(s, SetMin(keep), SetMax(keep))

\* String.prototype.includes
includes(s, t) == \E i \in 0..(Len(s) - Len(t)) : SubSeq(s, i + 1, i + Len(t)) = t

\* String.prototype.startsWith
startsWith(s, t) == Len(t) <= Len(s) /\ SubSeq(s, 1, Len(t)) = t

\* x || '' : a missing value and the empty string both give the empty string
orEmpty(x) == IF x = undefined THEN <<>> ELSE x

\* s.split(',')[0] : the text before the first comma, the whole text without one
firstChunk(s) ==
    LET commas == {i \in DOMAIN s : s[i] = ","}
    IN  IF commas = {} THEN s ELSE SubSeq(s, 1, SetMin(commas) - 1)

---------------------------------------------------------------------------
(* fuzzy helpers for location (city) *)

isLetterOrDigit(c) == c \in AZ \cup {"0","1","2","3","4","5","6","7","8","9"}

isNotWhiteSpace(c) == c \notin WhiteSpace

\* the character class of /[^a-z]/g : the characters replace() keeps
isLetter(c) == c \in AZ

normLetters(s) == SelectSeq(toLowerCase(orEmpty(s)), isLetter)

cityOf(location) == trim(firstChunk(orEmpty(location)))

Min3(x, y, z) ==
    IF x <= y THEN (IF x <= z THEN x ELSE z) ELSE (IF y <= z THEN y ELSE z)

costTwo(x, y) == IF x = y THEN 0 ELSE 2

costAlwaysOne(x, y) == 1

\* const cost = a[i-1]===b[j-1]?0:1
cost(x, y) == IF x = y THEN 0 ELSE 1

deletionTwo(d) == d + 2

\* dp[j]+1
deletion(d) == d + 1

insertionNoCost(d) == d

\* dp[j-1]+1
insertion(d) == d + 1

\* for (let j=1;j<=n;j++){ ... } of row i; a and b are indexed from 1 here,
\* and dp is the array of n+1 entries, so that j<=n is "j is an index of dp"
RECURSIVE levInner(_, _, _, _, _, _)
levInner(a, b, i, j, dp, prev) ==
    IF j \notin DOMAIN dp THEN dp
    ELSE LET tmp == dp[j]
             new == Min3(deletion(dp[j]), insertion(dp[j - 1]), prev + cost(a[i], b[j]))
         IN  levInner(a, b, i, j + 1, [dp EXCEPT ![j] = new], tmp)

\* for (let i=1;i<=m;i++){ let prev = i-1; dp[0]=i; ... }
RECURSIVE levOuter(_, _, _, _)
levOuter(a, b, i, dp) ==
    IF i > Len(a) THEN dp
    ELSE levOuter(a, b, i + 1, levInner(a, b, i, 1, [dp EXCEPT ![0] = i], i - 1))

levenshtein(a, b) ==
    LET m == Len(a)
        n == Len(b)
    IN  IF m = 0 THEN n
        ELSE IF n = 0 THEN m
        ELSE levOuter(a, b, 1, [j \in 0..n |-> j])[n]

\* if (d <= 2)
Threshold == 2

cityMatchesWithoutDistance(c, q, qn) ==
    LET cn == normLetters(c)
    IN  /\ cn # <<>>
        /\ \/ includes(toLowerCase(c), toLowerCase(q))
           \/ includes(cn, qn)
           \/ startsWith(cn, qn)

cityMatchesWithinLength(c, q, qn) ==
    LET cn == normLetters(c)
    IN  /\ cn # <<>>
        /\ \/ includes(toLowerCase(c), toLowerCase(q))
           \/ includes(cn, qn)
           \/ startsWith(cn, qn)
           \/ levenshtein(cn, qn) <= Len(cn)

cityMatchesRawOnly(c, q, qn) ==
    /\ normLetters(c) # <<>>
    /\ includes(toLowerCase(c), toLowerCase(q))

cityMatchesWithinOne(c, q, qn) ==
    LET cn == normLetters(c)
    IN  /\ cn # <<>>
        /\ \/ includes(toLowerCase(c), toLowerCase(q))
           \/ includes(cn, qn)
           \/ startsWith(cn, qn)
           \/ levenshtein(cn, qn) <= 1

cityMatchesByLettersOnly(c, q, qn) ==
    LET cn == normLetters(c)
    IN  /\ cn # <<>>
        /\ qn # <<>>
        /\ \/ includes(toLowerCase(c), toLowerCase(q))
           \/ includes(cn, qn)
           \/ startsWith(cn, qn)
           \/ levenshtein(cn, qn) <= Threshold

cityMatchesNoEmptyKeyCheck(c, q, qn) ==
    LET cn == normLetters(c)
    IN  \/ includes(toLowerCase(c), toLowerCase(q))
        \/ includes(cn, qn)
        \/ startsWith(cn, qn)
        \/ levenshtein(cn, qn) <= Threshold

\* the body of the loop over allCities: TRUE when out.add(c) is reached
cityMatches(c, q, qn) ==
    LET cn == normLetters(c)
    IN  /\ cn # <<>>
        /\ \/ includes(toLowerCase(c), toLowerCase(q))
           \/ includes(cn, qn)
           \/ startsWith(cn, qn)
           \/ levenshtein(cn, qn) <= Threshold

pickMatchingCitiesAddsQuery(allCities, query) ==
    LET q == trim(orEmpty(query))
    IN  IF q = <<>> THEN {}
        ELSE IF \E i \in DOMAIN allCities : cityMatches(allCities[i], q, normLetters(q))
             THEN {allCities[i] : i \in {k \in DOMAIN allCities :
                                            cityMatches(allCities[k], q, normLetters(q))}}
                  \cup {q}
             ELSE {}

pickMatchingCitiesNoTrim(allCities, query) ==
    LET q == orEmpty(query)
    IN  IF q = <<>> THEN {}
        ELSE {allCities[i] : i \in {k \in DOMAIN allCities :
                                       cityMatches(allCities[k], q, normLetters(q))}}

\* allCities is an array of city tokens, the result a Set of some of them
pickMatchingCities(allCities, query) ==
    LET q == trim(orEmpty(query))
    IN  IF q = <<>> THEN {}
        ELSE {allCities[i] : i \in {k \in DOMAIN allCities :
                                       cityMatches(allCities[k], q, normLetters(q))}}

allCitiesOfWholeLocation(distinct) == SelectSeq(distinct, LAMBDA c : c # <<>>)

\* distinct.map(cityOf).filter(Boolean), distinct being the non-empty locations
allCitiesOfKeepsEmpty(distinct) == [i \in DOMAIN distinct |-> cityOf(distinct[i])]

allCitiesOf(distinct) ==
    SelectSeq([i \in DOMAIN distinct |-> cityOf(distinct[i])], LAMBDA c : c # <<>>)

---------------------------------------------------------------------------
(* Request values and the tables *)

NoCall == [fn |-> "none"]
NoResponse == [op |-> "none"]

\* req.user as jwt.verify gives it; Anonymous is a request without a token cookie
Anonymous == [id |-> 0, is_admin |-> FALSE]
UserA == [id |-> 1, is_admin |-> FALSE]
UserB == [id |-> 2, is_admin |-> TRUE]
Requesters == {Anonymous, UserA, UserB}

\* an image is a string: what validateImages reads of it is its prefix and its size
ImgA == [prefix |-> "data:image", payload |-> "a", oversized |-> FALSE]
ImgB == [prefix |-> "data:image", payload |-> "b", oversized |-> FALSE]
ImgNoDataUrl == [prefix |-> "http:", payload |-> "a", oversized |-> FALSE]
ImgOversized == [prefix |-> "data:image", payload |-> "a", oversized |-> TRUE]

\* if (images.length > 10)
MaxImages == 10

validateImages(imgs) ==
    IF Len(imgs) = 0 THEN "At least one image is required"
    ELSE IF Len(imgs) > MaxImages THEN "Too many images (max 10)"
    ELSE IF \E i \in DOMAIN imgs : imgs[i].prefix # "data:image"
         THEN "Each image must be a data URL"
    ELSE IF \E i \in DOMAIN imgs : imgs[i].oversized
         THEN "Each image must be <= ~3MB"
    ELSE "null"

\* String.prototype.slice(0, n)
slice(s, n) == SubSeq(s, 1, IF Len(s) < n THEN Len(s) ELSE n)

toUpperChar(c) ==
    IF \E i \in DOMAIN Lowers : Lowers[i] = c
    THEN Uppers[CHOOSE i \in DOMAIN Lowers : Lowers[i] = c]
    ELSE c

\* s.replace(/\s+/g, ' ') : every run of whitespace becomes one space
collapseWhiteSpace(s) ==
    LET keep(i) == s[i] \notin WhiteSpace \/ i = 1 \/ s[i - 1] \notin WhiteSpace
        P == {i \in DOMAIN s : keep(i)}
        nth(k) == CHOOSE i \in P : Cardinality({j \in P : j <= i}) = k
    IN  [k \in 1..Cardinality(P) |->
            IF s[nth(k)] \in WhiteSpace THEN " " ELSE s[nth(k)]]

shortTitle(str) ==
    LET s == trim(orEmpty(str))
        t == slice(collapseWhiteSpace(s), 80)
    IN  IF s = <<>> THEN <<>> ELSE <<toUpperChar(t[1])>> \o SubSeq(t, 2, Len(t))

\* normalizeTags(tags) of a body without tags: if (!input) return ''
\* (the bodies of this model carry no tags, so the tags column stays '')
normalizeTagsAbsent == <<>>

RECURSIVE imagesByPositionDesc(_)
imagesByPositionDesc(rows) ==
    IF rows = {} THEN <<>>
    ELSE LET last == CHOOSE r \in rows : \A o \in rows : o.position <= r.position
         IN  <<last.image_data>> \o imagesByPositionDesc(rows \ {last})

\* the rows of listing_images of one listing, ORDER BY position ASC
RECURSIVE imagesByPosition(_)
imagesByPosition(rows) ==
    IF rows = {} THEN <<>>
    ELSE LET first == CHOOSE r \in rows : \A o \in rows : r.position <= o.position
         IN  <<first.image_data>> \o imagesByPosition(rows \ {first})

\* INSERT INTO listing_images ... : imgs.forEach((img, i) => stmt.run(id, img, i))
imageRows(id, imgs) ==
    {[listing_id |-> id, image_data |-> imgs[i], position |-> i - 1] : i \in DOMAIN imgs}

\* ORDER BY l.id DESC
RECURSIVE orderByIdDesc(_)
orderByIdDesc(rows) ==
    IF rows = {} THEN <<>>
    ELSE LET top == CHOOSE r \in rows : \A o \in rows : o.id <= r.id
         IN  <<top>> \o orderByIdDesc(rows \ {top})

RECURSIVE sqlLike(_, _)
\* SQLite's  text LIKE pattern : % is any run of characters, _ any one character,
\* any other character itself, ASCII letters without regard to case
sqlLike(pattern, text) ==
    IF pattern = <<>> THEN text = <<>>
    ELSE IF Head(pattern) = "%"
         THEN sqlLike(Tail(pattern), text) \/ (text # <<>> /\ sqlLike(pattern, Tail(text)))
    ELSE /\ text # <<>>
         /\ Head(pattern) = "_" \/ toLowerChar(Head(pattern)) = toLowerChar(Head(text))
         /\ sqlLike(Tail(pattern), Tail(text))

\* LOWER(l.title) LIKE @q OR LOWER(l.description) LIKE @q
\*   OR LOWER(IFNULL(l.tags,'')) LIKE @q OR LOWER(l.location) LIKE @q
textMatches(l, q) ==
    \/ sqlLike(q, toLowerCase(l.title))
    \/ sqlLike(q, toLowerCase(l.description))
    \/ sqlLike(q, toLowerCase(l.tags))
    \/ sqlLike(q, toLowerCase(l.location))

\* the columns of SELECT_PUBLIC; tags are not among them
publicRow(l) ==
    [id |-> l.id, user_id |-> l.user_id, image_data |-> l.image_data, title |-> l.title,
     description |-> l.description, location |-> l.location, price |-> l.price,
     tags |-> <<>>]

\* { ...r, tags: t ? t.split(',') : [] } ; a tag holds no comma, tags is '' or one tag
ownerRow(l) ==
    [publicRow(l) EXCEPT !.tags = IF l.tags = <<>> THEN <<>> ELSE <<l.tags>>]

\* qRaw ? `%${qRaw}%` : null
likePattern(qRaw) == <<"%">> \o qRaw \o <<"%">>

baseRowsPublic(qRaw) ==
    orderByIdDesc({publicRow(l) : l \in
        {x \in listings : qRaw = <<>> \/ textMatches(x, likePattern(qRaw))}})

baseRowsForUser(qRaw, userId) ==
    orderByIdDesc({ownerRow(l) : l \in
        {x \in listings : /\ x.user_id = userId
                          /\ qRaw = <<>> \/ textMatches(x, likePattern(qRaw))}})

RECURSIVE distinctLocationsOfFirstUser(_)
distinctLocationsOfFirstUser(rows) ==
    LET own == {r \in rows : r.user_id = 1}
    IN  IF own = {} THEN <<>>
        ELSE LET first == CHOOSE r \in own : \A o \in own : r.id <= o.id
                 rest == distinctLocationsOfFirstUser(
                             {r \in own : r.location # first.location})
             IN  IF first.location = <<>> THEN rest ELSE <<first.location>> \o rest

\* SELECT DISTINCT location FROM listings, .filter(Boolean); in the order of the ids
RECURSIVE distinctLocations(_)
distinctLocations(rows) ==
    IF rows = {} THEN <<>>
    ELSE LET first == CHOOSE r \in rows : \A o \in rows : r.id <= o.id
             rest == distinctLocations({r \in rows : r.location # first.location})
         IN  IF first.location = <<>> THEN rest ELSE <<first.location>> \o rest

\* const allCities = distinct.map(cityOf).filter(Boolean), distinct being read
\* from the listings table when the request is handled
candidateCities == allCitiesOf(distinctLocations(listings))

narrowIgnoresStepOne(rows, locRaw) ==
    LET matches == pickMatchingCities(candidateCities, locRaw)
        setNorm == {normLetters(c) : c \in matches}
    IN  IF matches # {}
        THEN SelectSeq(baseRowsPublic(<<>>),
                       LAMBDA r : normLetters(cityOf(r.location)) \in setNorm)
        ELSE <<>>

narrowKeepsKeyless(rows, locRaw) ==
    LET matches == pickMatchingCities(candidateCities, locRaw)
        setNorm == {normLetters(c) : c \in matches} \cup {<<>>}
    IN  IF matches # {}
        THEN SelectSeq(rows, LAMBDA r : normLetters(cityOf(r.location)) \in setNorm)
        ELSE <<>>

narrowKeepsAllOnMatch(rows, locRaw) ==
    LET matches == pickMatchingCities(candidateCities, locRaw)
    IN  IF matches # {} THEN rows ELSE <<>>

narrowKeepsAllOnNoMatch(rows, locRaw) ==
    LET matches == pickMatchingCities(candidateCities, locRaw)
        setNorm == {normLetters(c) : c \in matches}
    IN  IF matches # {}
        THEN SelectSeq(rows, LAMBDA r : normLetters(cityOf(r.location)) \in setNorm)
        ELSE rows

\* semantic location narrowing (only to existing listing locations)
narrow(rows, locRaw) ==
    LET matches == pickMatchingCities(candidateCities, locRaw)
        setNorm == {normLetters(c) : c \in matches}
    IN  IF matches # {}
        THEN SelectSeq(rows, LAMBDA r : normLetters(cityOf(r.location)) \in setNorm)
        ELSE <<>>

---------------------------------------------------------------------------
(* The handlers; every one answers a request while no response is pending *)

MaxListings == 2

Bike == <<"B","i","k","e">>
Sofa == <<"s","o","f","a">>
RyeNY == <<"R","y","e",","," ","N","Y">>
TroyNY == <<"T","r","o","y",","," ","N","Y">>
TwelveNY == <<"1","2",","," ","N","Y">>

Descriptions == {Bike, Sofa}
Locations == {RyeNY, TroyNY, TwelveNY}
ImageArrays == {<<>>, <<ImgA, ImgB>>, <<ImgB>>, <<ImgA, ImgNoDataUrl>>, <<ImgOversized>>,
                [i \in 1..MaxImages |-> ImgB], [i \in 1..(MaxImages + 1) |-> ImgA]}

\* the text queries and location queries a search is tried with
QueryTexts == {undefined, <<"b","i","k","e">>, <<"_">>}
LocQueries == {undefined, <<" ">>, <<"t","o","r","y">>,
               <<"a","t","l","a","n","t","i","s">>, <<"1","2">>}

\* a request body: an optional field is <<>> when absent, <<value>> when present
\* (a string field: undefined when absent)
Body(imgs, img, description, location, price) ==
    [images |-> imgs, image_data |-> img, description |-> description,
     location |-> location, price |-> price]

\* the accepted bodies, and one body for each way of being rejected
CreateBodies ==
    {Body(<< <<ImgA, ImgB>> >>, <<>>, d, l, <<120>>) : d \in Descriptions, l \in Locations}
    \cup {Body(<<>>, <<ImgB>>, d, l, <<120>>) : d \in Descriptions, l \in Locations}
    \cup {Body(<<a>>, <<ImgB>>, Bike, RyeNY, <<120>>) : a \in ImageArrays}
    \cup {Body(<<>>, <<>>, Bike, RyeNY, <<120>>),
          Body(<< <<ImgA>> >>, <<>>, undefined, RyeNY, <<120>>),
          Body(<< <<ImgA>> >>, <<>>, Bike, undefined, <<120>>),
          Body(<< <<ImgA>> >>, <<>>, Bike, RyeNY, <<>>)}

UpdateBodies ==
    {Body(i, <<>>, undefined, l, p) :
        i \in {<<>>} \cup {<<a>> : a \in ImageArrays},
        l \in {undefined} \cup Locations,
        p \in {<<>>, <<120>>}}
    \cup {Body(<<>>, <<ImgB>>, undefined, l, <<>>) : l \in {undefined} \cup Locations}

Answer(op, status, req, body) ==
    resp' = [op |-> op, status |-> status, req |-> req, body |-> body]

\* const imgs = Array.isArray(images) ? images : (image_data ? [image_data] : [])
imgsOf(body) ==
    IF body.images # <<>> THEN body.images[1]
    ELSE IF body.image_data # <<>> THEN <<body.image_data[1]>>
    ELSE <<>>

\* GET /api/listings from the strings of q and loc on; the answer is recorded
\* with the request req and with allCities, the candidate cities the handler
\* read for the narrowing (none when locRaw is empty)
\* the rows GET /api/listings answers: step 1 by q and mine, then the narrowing
searchRows(me, qParam, locParam, mine) ==
    LET qRaw == toLowerCase(trim(orEmpty(qParam)))
        locRaw == trim(orEmpty(locParam))
        rows == IF mine THEN baseRowsForUser(qRaw, me.id) ELSE baseRowsPublic(qRaw)
    IN  IF locRaw # <<>> THEN narrow(rows, locRaw) ELSE rows

answerSearch(me, qParam, locParam, mine, req) ==
    LET locRaw == trim(orEmpty(locParam))
    IN  /\ IF mine /\ me = Anonymous
           THEN Answer("search", 401, req, <<>>)
           ELSE resp' = [op |-> "search", status |-> 200, req |-> req,
                         body |-> searchRows(me, qParam, locParam, mine),
                         allCities |-> IF locRaw # <<>> THEN candidateCities ELSE <<>>]
        /\ UNCHANGED <<listings, images, nextId, call, ret, chat, users>>

\* GET /api/listings with q and loc each a string or missing
Search(me, qParam, locParam, mine) ==
    answerSearch(me, qParam, locParam, mine,
                 [me |-> me, q |-> qParam, loc |-> locParam, mine |-> mine])

RECURSIVE join(_, _)
\* Array.prototype.join(sep), which Array.prototype.toString calls with ","
join(items, sep) ==
    IF items = <<>> THEN <<>>
    ELSE IF Len(items) = 1 THEN items[1]
    ELSE items[1] \o sep \o join(Tail(items), sep)

\* Object.prototype.toString() of a plain object
ObjectObject == <<"[","o","b","j","e","c","t"," ","O","b","j","e","c","t","]">>

\* (req.query.x || '').toString() of a parsed query parameter v: a string, a
\* missing parameter, an array of strings (x=a&x=b) or an object (x[k]=a)
queryString(v) ==
    CASE v.kind = "undefined" -> <<>>
      [] v.kind = "string" -> v.value
      [] v.kind = "array" -> join(v.value, <<",">>)
      [] v.kind = "object" -> ObjectObject

\* v.toString is not a function: an object parsed from x[toString]=a has its own
\* toString property, a string, and calling it throws a TypeError
toStringThrows(v) == v.kind = "object" /\ "toString" \in Range(v.value)

\* GET /api/listings with q and loc as the query parser hands them over; what a
\* handler throws is answered by the last middleware: 500 server_error
SearchParsed(me, qv, locv, mine) ==
    IF toStringThrows(qv) \/ toStringThrows(locv)
    THEN /\ Answer("search", 500, [me |-> me, mine |-> mine, query |-> [q |-> qv, loc |-> locv]],
                   "server_error")
         /\ UNCHANGED <<listings, images, nextId, call, ret, chat, users>>
    ELSE answerSearch(me, queryString(qv), queryString(locv), mine,
                      [me |-> me, q |-> queryString(qv), loc |-> queryString(locv),
                       mine |-> mine, query |-> [q |-> qv, loc |-> locv]])

\* POST /api/listings
CreateListing(me, body) ==
    LET imgs == imgsOf(body)
        err == validateImages(imgs)
        row == [id |-> nextId, user_id |-> me.id, image_data |-> imgs[1],
                title |-> shortTitle(body.description),
                description |-> slice(body.description, 400),
                location |-> slice(body.location, 80),
                price |-> body.price[1],
                tags |-> normalizeTagsAbsent]
        req == [me |-> me]
    IN  /\ IF me = Anonymous
           THEN Answer("create", 401, req, "Not authenticated") /\ UNCHANGED <<listings, images, nextId>>
           ELSE IF err # "null"
           THEN Answer("create", 400, req, err) /\ UNCHANGED <<listings, images, nextId>>
           ELSE IF orEmpty(body.description) = <<>> \/ orEmpty(body.location) = <<>> \/ body.price = <<>>
           THEN Answer("create", 400, req, "Missing fields") /\ UNCHANGED <<listings, images, nextId>>
           ELSE /\ nextId <= MaxListings
                /\ listings' = listings \cup {row}
                /\ images' = images \cup imageRows(nextId, imgs)
                /\ nextId' = nextId + 1
                /\ Answer("create", 200, req, row)
        /\ UNCHANGED <<call, ret, chat, users>>

UpdateListingDeletesFirst(me, id, body) ==
    LET found == {l \in listings : l.id = id}
        existing == CHOOSE l \in found : TRUE
        withImages == body.images # <<>> \/ body.image_data # <<>>
        imgs == imgsOf(body)
        err == validateImages(imgs)
        row == [existing EXCEPT
                  !.image_data = IF withImages THEN imgs[1] ELSE @,
                  !.description = IF orEmpty(body.description) # <<>>
                                  THEN slice(body.description, 400) ELSE @,
                  !.location = IF orEmpty(body.location) # <<>>
                               THEN slice(body.location, 80) ELSE @,
                  !.price = IF body.price # <<>> THEN body.price[1] ELSE @]
        req == [id |-> id, me |-> me]
    IN  /\ IF me = Anonymous
           THEN Answer("update", 401, req, "Not authenticated") /\ UNCHANGED <<listings, images>>
           ELSE IF found = {}
           THEN Answer("update", 404, req, "Not found") /\ UNCHANGED <<listings, images>>
           ELSE IF ~me.is_admin /\ existing.user_id # me.id
           THEN Answer("update", 403, req, "Not your listing") /\ UNCHANGED <<listings, images>>
           ELSE IF withImages /\ err # "null"
           THEN /\ Answer("update", 400, req, err)
                /\ images' = {r \in images : r.listing_id # id}
                /\ UNCHANGED listings
           ELSE /\ images' = IF withImages
                             THEN {r \in images : r.listing_id # id} \cup imageRows(id, imgs)
                             ELSE images
                /\ listings' = (listings \ found) \cup {row}
                /\ Answer("update", 200, req, row)
        /\ UNCHANGED <<nextId, call, ret, chat, users>>

\* PUT /api/listings/:id
UpdateListing(me, id, body) ==
    LET found == {l \in listings : l.id = id}
        existing == CHOOSE l \in found : TRUE
        withImages == body.images # <<>> \/ body.image_data # <<>>
        imgs == imgsOf(body)
        err == validateImages(imgs)
        row == [existing EXCEPT
                  !.image_data = IF withImages THEN imgs[1] ELSE @,
                  !.description = IF orEmpty(body.description) # <<>>
                                  THEN slice(body.description, 400) ELSE @,
                  !.location = IF orEmpty(body.location) # <<>>
                               THEN slice(body.location, 80) ELSE @,
                  !.price = IF body.price # <<>> THEN body.price[1] ELSE @]
        req == [id |-> id, me |-> me]
    IN  /\ IF me = Anonymous
           THEN Answer("update", 401, req, "Not authenticated") /\ UNCHANGED <<listings, images>>
           ELSE IF found = {}
           THEN Answer("update", 404, req, "Not found") /\ UNCHANGED <<listings, images>>
           ELSE IF ~me.is_admin /\ existing.user_id # me.id
           THEN Answer("update", 403, req, "Not your listing") /\ UNCHANGED <<listings, images>>
           ELSE IF withImages /\ err # "null"
           THEN Answer("update", 400, req, err) /\ UNCHANGED <<listings, images>>
           ELSE /\ images' = IF withImages
                             THEN {r \in images : r.listing_id # id} \cup imageRows(id, imgs)
                             ELSE images
                /\ listings' = (listings \ found) \cup {row}
                /\ Answer("update", 200, req, row)
        /\ UNCHANGED <<nextId, call, ret, chat, users>>

DeleteListingKeepsImages(me, id) ==
    LET found == {l \in listings : l.id = id}
        existing == CHOOSE l \in found : TRUE
        req == [id |-> id, me |-> me]
    IN  /\ IF me = Anonymous
           THEN Answer("delete", 401, req, "Not authenticated") /\ UNCHANGED <<listings, images>>
           ELSE IF found = {}
           THEN Answer("delete", 404, req, "Not found") /\ UNCHANGED <<listings, images>>
           ELSE IF ~me.is_admin /\ existing.user_id # me.id
           THEN Answer("delete", 403, req, "Not your listing") /\ UNCHANGED <<listings, images>>
           ELSE /\ images' = images
                /\ listings' = listings \ found
                /\ Answer("delete", 200, req, "ok")
        /\ UNCHANGED <<nextId, call, ret, chat, users>>

\* DELETE /api/listings/:id
DeleteListing(me, id) ==
    LET found == {l \in listings : l.id = id}
        existing == CHOOSE l \in found : TRUE
        req == [id |-> id, me |-> me]
    IN  /\ IF me = Anonymous
           THEN Answer("delete", 401, req, "Not authenticated") /\ UNCHANGED <<listings, images>>
           ELSE IF found = {}
           THEN Answer("delete", 404, req, "Not found") /\ UNCHANGED <<listings, images>>
           ELSE IF ~me.is_admin /\ existing.user_id # me.id
           THEN Answer("delete", 403, req, "Not your listing") /\ UNCHANGED <<listings, images>>
           ELSE /\ images' = {r \in images : r.listing_id # id}
                /\ listings' = listings \ found
                /\ Answer("delete", 200, req, "ok")
        /\ UNCHANGED <<nextId, call, ret, chat, users>>

\* DELETE /api/admin/listings/:id
AdminDeleteListing(me, id) ==
    LET req == [id |-> id, me |-> me]
    IN  /\ IF me = Anonymous
           THEN Answer("adminDelete", 401, req, "Not authenticated") /\ UNCHANGED <<listings, images>>
           ELSE IF ~me.is_admin
           THEN Answer("adminDelete", 403, req, "Admin only") /\ UNCHANGED <<listings, images>>
           ELSE /\ images' = {r \in images : r.listing_id # id}
                /\ listings' = {l \in listings : l.id # id}
                /\ Answer("adminDelete", 200, req, "ok")
        /\ UNCHANGED <<nextId, call, ret, chat, users>>

\* DELETE /api/admin/listings
AdminDeleteAll(me) ==
    LET req == [me |-> me]
    IN  /\ IF me = Anonymous
           THEN Answer("adminDeleteAll", 401, req, "Not authenticated") /\ UNCHANGED <<listings, images>>
           ELSE IF ~me.is_admin
           THEN Answer("adminDeleteAll", 403, req, "Admin only") /\ UNCHANGED <<listings, images>>
           ELSE /\ images' = {}
                /\ listings' = {}
                /\ Answer("adminDeleteAll", 200, req, "ok")
        /\ UNCHANGED <<nextId, call, ret, chat, users>>

\* SELECT image_data FROM listing_images WHERE listing_id = ? ORDER BY position ASC
listingImages(rows, id) == imagesByPosition({r \in rows : r.listing_id = id})

\* GET /api/listings/:id/images
GetImages(id) ==
    /\ Answer("images", 200, [id |-> id], listingImages(images, id))
    /\ UNCHANGED <<listings, images, nextId, call, ret, chat, users>>

\* res.json(...) : the pending response leaves the server
Send ==
    /\ resp' = NoResponse
    /\ UNCHANGED <<listings, images, nextId, call, ret, chat, users>>

Init ==
    /\ listings = {}
    /\ images = {}
    /\ nextId = 1
    /\ resp = NoResponse
    /\ call = NoCall
    /\ ret = <<>>
    /\ conversations = {}
    /\ messages = {}
    /\ message_images = {}
    /\ users = {}

\* a request is handled to its end before the next one: the handlers are synchronous
Idle == resp.op = "none"

GetListings ==
    /\ Idle
    /\ \/ \E q \in QueryTexts, loc \in LocQueries : Search(Anonymous, q, loc, FALSE)
       \/ \E me \in Requesters, q \in QueryTexts, loc \in LocQueries : Search(me, q, loc, TRUE)

PostListing == Idle /\ \E me \in Requesters, body \in CreateBodies : CreateListing(me, body)

PutListing ==
    /\ Idle
    /\ \E me \in Requesters, id \in 1..MaxListings, body \in UpdateBodies :
          UpdateListing(me, id, body)

DeleteListingRequest ==
    Idle /\ \E me \in Requesters, id \in 1..MaxListings : DeleteListing(me, id)

AdminDeleteListingRequest ==
    Idle /\ \E me \in Requesters, id \in 1..MaxListings : AdminDeleteListing(me, id)

AdminDeleteAllRequest == Idle /\ \E me \in Requesters : AdminDeleteAll(me)

SendResponse == ~Idle /\ Send

Next ==
    \/ GetListings
    \/ PostListing
    \/ PutListing
    \/ DeleteListingRequest
    \/ AdminDeleteListingRequest
    \/ AdminDeleteAllRequest
    \/ SendResponse

Spec == Init /\ [][Next]_vars

---------------------------------------------------------------------------
(* The handlers on a corpus of named cities, the query parameters as parsed *)

BrooklynNY == <<"B","r","o","o","k","l","y","n",","," ","N","Y">>
QueensNY == <<"Q","u","e","e","n","s",","," ","N","Y">>
brookln == <<"b","r","o","o","k","l","n">>
brooklin == <<"b","r","o","o","k","l","i","n">>
queens == <<"q","u","e","e","n","s">>
bike == <<"b","i","k","e">>

BoroughBodies == {Body(<< <<ImgA>> >>, <<>>, Bike, l, <<120>>) : l \in {BrooklynNY, QueensNY}}

\* req.query.x : a string, missing, an array (x=a&x=b) or an object (x[k]=a)
Str(s) == [kind |-> "string", value |-> s]
Missing == [kind |-> "undefined", value |-> <<>>]
Arr(items) == [kind |-> "array", value |-> items]
\* an object is given by its own keys
Obj(keys) == [kind |-> "object", value |-> keys]

ParsedTexts == {Missing, Str(bike), Arr(<<bike, bike>>), Obj(<<"k">>), Obj(<<"toString">>)}
ParsedLocs == {Missing, Str(brookln), Str(brooklin), Arr(<<brookln>>),
               Arr(<<brookln, queens>>), Obj(<<"k">>), Obj(<<"toString">>)}

GetListingsParsed ==
    /\ Idle
    /\ \E me \in Requesters, qv \in ParsedTexts, locv \in ParsedLocs, mine \in BOOLEAN :
          SearchParsed(me, qv, locv, mine)

PostBoroughListing ==
    Idle /\ \E me \in Requesters, body \in BoroughBodies : CreateListing(me, body)

NextBoroughs ==
    \/ GetListingsParsed
    \/ PostBoroughListing
    \/ DeleteListingRequest
    \/ SendResponse

SpecBoroughs == Init /\ [][NextBoroughs]_vars

---------------------------------------------------------------------------
(* The handlers of a listing's images, on arrays of every accepted length *)

\* n images, ImgA and ImgB in turn, ImgA first
Alternating(n) == [i \in 1..n |-> IF i % 2 = 1 THEN ImgA ELSE ImgB]

SubmittedImages ==
    {Alternating(n) : n \in 1..MaxImages}
    \cup {<<ImgB, ImgA>>, <<ImgA, ImgA>>, <<ImgB, ImgB, ImgA>>}

ImageBodies == {Body(<<a>>, <<>>, Bike, RyeNY, <<120>>) : a \in SubmittedImages}

PostImagesListing ==
    Idle /\ \E me \in {Anonymous, UserA}, body \in ImageBodies : CreateListing(me, body)

GetImagesRequest == Idle /\ \E id \in 1..MaxListings : GetImages(id)

NextImages ==
    \/ PostImagesListing
    \/ GetImagesRequest
    \/ DeleteListingRequest
    \/ SendResponse

SpecImages == Init /\ [][NextImages]_vars

---------------------------------------------------------------------------
(* Conversations and messages *)

\* if (images.length > 5)
MaxMsgImages == 5

validateMsgImages(imgs) ==
    IF imgs = <<>> THEN "null"
    ELSE IF Len(imgs[1]) > MaxMsgImages THEN "Too many images (max 5)"
    ELSE IF \E i \in DOMAIN imgs[1] : imgs[1][i].prefix # "data:image"
         THEN "Each image must be a data URL"
    ELSE IF \E i \in DOMAIN imgs[1] : imgs[1][i].oversized
         THEN "Each image must be <= ~3MB"
    ELSE "null"

\* normalizePair(u1, u2)
normalizePair(u1, u2) ==
    [a |-> IF u1 <= u2 THEN u1 ELSE u2, b |-> IF u1 <= u2 THEN u2 ELSE u1]

isMember(convo, uid) == convo.a_user_id = uid \/ convo.b_user_id = uid

\* INSERT INTO message_images ... : images.forEach((img, i) => stmt.run(msgId, img, i))
messageImageRows(msgId, imgs) ==
    {[message_id |-> msgId, image_data |-> imgs[i], position |-> i - 1] : i \in DOMAIN imgs}

\* SELECT image_data FROM message_images WHERE message_id = ? ORDER BY position ASC
imagesOfMessage(rows, msgId) == imagesByPosition({r \in rows : r.message_id = msgId})

\* { ...m, images }
withImages(m, rows) ==
    [id |-> m.id, conversation_id |-> m.conversation_id, sender_id |-> m.sender_id,
     body |-> m.body, images |-> imagesOfMessage(rows, m.id)]

RECURSIVE orderByIdDescending(_)
orderByIdDescending(rows) ==
    IF rows = {} THEN <<>>
    ELSE LET top == CHOOSE r \in rows : \A o \in rows : o.id <= r.id
         IN  <<top>> \o orderByIdDescending(rows \ {top})

RECURSIVE orderByIdAsc(_)
\* ORDER BY m.id ASC
orderByIdAsc(rows) ==
    IF rows = {} THEN <<>>
    ELSE LET first == CHOOSE r \in rows : \A o \in rows : r.id <= o.id
         IN  <<first>> \o orderByIdAsc(rows \ {first})

\* the messages of conversation id with their images, as requester uid gets them
messagesOf(id, uid) ==
    orderByIdAsc({withImages(m, message_images) :
                    m \in {x \in messages : x.conversation_id = id}})

MaxConversations == 2
MaxMessages == 2

\* POST /api/conversations ; with and listing are <<>> when the body has none
StartConversation(me, with, listing) ==
    LET req == [me |-> me, with_user_id |-> with, listing_id |-> listing]
        found == IF listing = <<>> THEN {} ELSE {l \in listings : l.id = listing[1]}
        lst == CHOOSE l \in found : TRUE
        other == IF with # <<>> THEN with[1] ELSE lst.user_id
        pair == normalizePair(me.id, other)
        existing == {c \in conversations : /\ c.a_user_id = pair.a
                                           /\ c.b_user_id = pair.b
                                           /\ c.listing_id = listing}
        row == [id |-> Cardinality(conversations) + 1, a_user_id |-> pair.a,
                b_user_id |-> pair.b, listing_id |-> listing]
    IN  /\ IF me = Anonymous
           THEN Answer("conversation", 401, req, "Not authenticated")
                /\ UNCHANGED conversations
           ELSE IF with = <<>> /\ listing = <<>>
           THEN Answer("conversation", 400, req, "with_user_id or listing_id required")
                /\ UNCHANGED conversations
           ELSE IF listing # <<>> /\ found = {}
           THEN Answer("conversation", 404, req, "Listing not found")
                /\ UNCHANGED conversations
           ELSE IF other = me.id
           THEN Answer("conversation", 400, req, "Cannot message yourself")
                /\ UNCHANGED conversations
           ELSE IF listing # <<>> /\ existing # {}
           \* the INSERT fails on UNIQUE (a_user_id, b_user_id, listing_id), which
           \* holds no two rows apart when listing_id is NULL
           THEN Answer("conversation", 200, req, CHOOSE c \in existing : TRUE)
                /\ UNCHANGED conversations
           ELSE /\ Cardinality(conversations) < MaxConversations
                /\ conversations' = conversations \cup {row}
                /\ Answer("conversation", 200, req, row)
        /\ UNCHANGED <<listings, images, nextId, call, ret, messages, message_images, users>>

\* GET /api/conversations/:id/messages
GetMessages(me, id) ==
    LET req == [me |-> me, id |-> id]
        found == {c \in conversations : c.id = id}
        convo == CHOOSE c \in found : TRUE
    IN  /\ IF me = Anonymous
           THEN Answer("messages", 401, req, "Not authenticated")
           ELSE IF found = {}
           THEN Answer("messages", 404, req, "Not found")
           ELSE IF ~isMember(convo, me.id)
           THEN Answer("messages", 403, req, "Forbidden")
           ELSE Answer("messages", 200, req, messagesOf(id, me.id))
        /\ UNCHANGED <<listings, images, nextId, call, ret, chat, users>>

\* POST /api/conversations/:id/messages ; imgs is <<>> when the body has no images
PostMessage(me, id, body, imgs) ==
    LET req == [me |-> me, id |-> id]
        found == {c \in conversations : c.id = id}
        convo == CHOOSE c \in found : TRUE
        err == validateMsgImages(imgs)
        msgId == Cardinality(messages) + 1
        row == [id |-> msgId, conversation_id |-> id, sender_id |-> me.id,
                body |-> slice(orEmpty(body), 2000)]
        newImages == IF imgs = <<>> THEN {} ELSE messageImageRows(msgId, imgs[1])
    IN  /\ IF me = Anonymous
           THEN Answer("message", 401, req, "Not authenticated")
                /\ UNCHANGED <<messages, message_images>>
           ELSE IF trim(orEmpty(body)) = <<>> /\ (imgs = <<>> \/ imgs[1] = <<>>)
           THEN Answer("message", 400, req, "Message body or image required")
                /\ UNCHANGED <<messages, message_images>>
           ELSE IF found = {}
           THEN Answer("message", 404, req, "Not found")
                /\ UNCHANGED <<messages, message_images>>
           ELSE IF ~isMember(convo, me.id)
           THEN Answer("message", 403, req, "Forbidden")
                /\ UNCHANGED <<messages, message_images>>
           ELSE IF err # "null"
           THEN Answer("message", 400, req, err)
                /\ UNCHANGED <<messages, message_images>>
           ELSE /\ Cardinality(messages) < MaxMessages
                /\ messages' = messages \cup {row}
                /\ message_images' = message_images \cup newImages
                /\ Answer("message", 200, req,
                          withImages(row, message_images \cup newImages))
        /\ UNCHANGED <<listings, images, nextId, call, ret, conversations, users>>

Hi == <<"H","i","!">>
Yo == <<"Y","o">>

\* a third user, whom conversations are started with; nobody asks as them here
UserC == [id |-> 3, is_admin |-> FALSE]

\* the accepted message bodies <<body, images>>, and one for each way of being
\* rejected
MessagePosts ==
    {<<Hi, <<>> >>, <<Yo, <<>> >>, <<undefined, << <<ImgA, ImgB>> >> >>,
     <<undefined, <<>> >>, << <<" ">>, << <<>> >> >>,
     <<Hi, << <<ImgNoDataUrl>> >> >>, <<Hi, << <<ImgOversized>> >> >>,
     <<Hi, << [i \in 1..(MaxMsgImages + 1) |-> ImgA] >> >>}

PostChatListing ==
    Idle /\ CreateListing(UserA, Body(<< <<ImgA>> >>, <<>>, Bike, RyeNY, <<120>>))

PostConversation ==
    /\ Idle
    /\ \E me \in Requesters, with \in {<<>>, <<UserB.id>>, <<UserC.id>>},
          listing \in {<<>>, <<1>>} : StartConversation(me, with, listing)

GetMessagesRequest ==
    Idle /\ \E me \in Requesters, id \in 1..MaxConversations : GetMessages(me, id)

PostMessageRequest ==
    /\ Idle
    /\ \E me \in Requesters, id \in 1..MaxConversations, post \in MessagePosts :
          PostMessage(me, id, post[1], post[2])

NextChat ==
    \/ PostChatListing
    \/ PostConversation
    \/ GetMessagesRequest
    \/ PostMessageRequest
    \/ SendResponse

SpecChat == Init /\ [][NextChat]_vars

---------------------------------------------------------------------------
(* Registration *)

\* if (username.length < 3 || username.length > 32)
MinUsernameLength == 3
MaxUsernameLength == 32
\* if (password.length < 6)
MinPasswordLength == 6

\* a || b : the first of two strings that is neither missing nor empty
firstNonEmpty(a, b) == IF orEmpty(a) # <<>> THEN a ELSE orEmpty(b)

MaxUsers == 2

\* POST /api/register : the answers it can give and the users table each leaves
register(body) ==
    LET username == trim(firstNonEmpty(body.username, body.name))
        email == toLowerCase(trim(orEmpty(body.email)))
        password == orEmpty(body.password)
        row == [id |-> Cardinality(users) + 1, email |-> email, username |-> username,
                is_admin |-> 0]
        emailTaken == \E u \in users : u.email = email
        usernameTaken == \E u \in users : u.username = username
    IN  IF username = <<>> \/ email = <<>> \/ password = <<>>
        THEN {[status |-> 400, body |-> "Username, email, and password are required", rows |-> users]}
        ELSE IF Len(username) < MinUsernameLength \/ Len(username) > MaxUsernameLength
        THEN {[status |-> 400, body |-> "Username must be 3-32 chars", rows |-> users]}
        ELSE IF Len(password) < MinPasswordLength
        THEN {[status |-> 400, body |-> "Password must be at least 6 chars", rows |-> users]}
        ELSE IF emailTaken \/ usernameTaken
        \* the INSERT fails on one of the two UNIQUE constraints; which one it
        \* names when both fail is SQLite's choice
        THEN {[status |-> 409, body |-> "Email already registered", rows |-> users] :
                 x \in {1} \cap {IF emailTaken THEN 1 ELSE 0}}
             \cup {[status |-> 409, body |-> "Username already taken", rows |-> users] :
                 x \in {1} \cap {IF usernameTaken THEN 1 ELSE 0}}
        ELSE {[status |-> 200, body |-> row, rows |-> users \cup {row}]}

Register(body) ==
    /\ \E answer \in register(body) :
          /\ answer.status = 200 => Cardinality(users) < MaxUsers
          /\ users' = answer.rows
          /\ Answer("register", answer.status, body, answer.body)
    /\ UNCHANGED <<listings, images, nextId, call, ret, chat>>

ann == <<"a","n","n">>
bob == <<"b","o","b">>
al == <<"a","l">>
MailA == <<" ","A","@","t",".","c","o"," ">>
mailA == <<"a","@","t",".","c","o">>
mailB == <<"b","@","t",".","c","o">>
secret1 == <<"s","e","c","r","e","t","1">>
short == <<"s","h","o","r","t">>

RegisterBodies ==
    [username : {undefined, ann, bob, al, [i \in 1..(MaxUsernameLength + 1) |-> "x"]},
     name : {undefined, ann},
     email : {undefined, mailA, MailA, mailB},
     password : {undefined, secret1, short}]

PostRegister == Idle /\ \E body \in RegisterBodies : Register(body)

NextRegister == PostRegister \/ SendResponse

SpecRegister == Init /\ [][NextRegister]_vars

---------------------------------------------------------------------------
(* Direct calls of the helpers, on inputs drawn from bounded sets *)

RECURSIVE Words(_, _)
\* every string over alphabet of length at most n
Words(alphabet, n) ==
    IF n = 0 THEN {<<>>}
    ELSE LET shorter == Words(alphabet, n - 1)
         IN  shorter \cup {Append(w, c) : w \in {x \in shorter : Len(x) = n - 1}, c \in alphabet}

RECURSIVE Arrays(_, _)
\* every array of at most n elements of S
Arrays(S, n) ==
    IF n = 0 THEN {<<>>}
    ELSE LET shorter == Arrays(S, n - 1)
         IN  shorter \cup {Append(w, c) : w \in {x \in shorter : Len(x) = n - 1}, c \in S}

MaxLevLen == 3
LevStrings == Words({"a", "b", "c"}, MaxLevLen)

MaxNormLen == 3
StPaul == <<"S","t","."," ","P","a","u","l">>
stpaul == <<"s","t","p","a","u","l">>
NormInputs == Words({"a", "B", " ", "-", "'", ".", "1"}, MaxNormLen) \cup {StPaul, stpaul, undefined}

MaxLocLen == 3
LocStrings == Words({"a", "B", " ", ","}, MaxLocLen)
MaxRows == 2
MaxRowLocLen == 2
RowLocStrings == Words({"a", " ", ","}, MaxRowLocLen)

MaxCityLen == 2
MaxCities == 2
MaxQueryLen == 3
CityStrings == Words({"a", "b", "A", "1"}, MaxCityLen)
QueryStrings == Words({"a", "b", "A", "1", " "}, MaxQueryLen) \cup {undefined}

DbIdle ==
    /\ listings = {} /\ images = {} /\ nextId = 1 /\ resp = NoResponse
    /\ conversations = {} /\ messages = {} /\ message_images = {}
    /\ users = {}

CallLevenshtein ==
    /\ call.fn = "levenshtein" /\ ret = <<>>
    /\ ret' = <<levenshtein(call.a, call.b)>>
    /\ UNCHANGED <<call, listings, images, nextId, resp, chat, users>>

CallNormLetters ==
    /\ call.fn = "normLetters" /\ ret = <<>>
    /\ ret' = <<normLetters(call.s)>>
    /\ UNCHANGED <<call, listings, images, nextId, resp, chat, users>>

CallCityOf ==
    /\ call.fn = "cityOf" /\ ret = <<>>
    /\ ret' = <<cityOf(call.location)>>
    /\ UNCHANGED <<call, listings, images, nextId, resp, chat, users>>

CallAllCities ==
    /\ call.fn = "allCities" /\ ret = <<>>
    /\ ret' = <<allCitiesOf(call.distinct)>>
    /\ UNCHANGED <<call, listings, images, nextId, resp, chat, users>>

CallPickMatchingCities ==
    /\ call.fn = "pickMatchingCities" /\ ret = <<>>
    /\ ret' = <<pickMatchingCities(call.allCities, call.query)>>
    /\ UNCHANGED <<call, listings, images, nextId, resp, chat, users>>

InitLev ==
    /\ call \in [fn : {"levenshtein"}, a : LevStrings, b : LevStrings]
    /\ ret = <<>>
    /\ DbIdle
NextLev == CallLevenshtein
SpecLev == InitLev /\ [][NextLev]_vars

InitNorm ==
    /\ call \in [fn : {"normLetters"}, s : NormInputs]
    /\ ret = <<>>
    /\ DbIdle
NextNorm == CallNormLetters
SpecNorm == InitNorm /\ [][NextNorm]_vars

\* the rows of SELECT DISTINCT location, after .filter(Boolean): distinct, non-empty
DistinctLocations ==
    {d \in Arrays(RowLocStrings \ {<<>>}, MaxRows) :
        \A i, j \in DOMAIN d : i # j => d[i] # d[j]}

InitCity ==
    /\ \/ call \in [fn : {"cityOf"}, location : LocStrings \cup {undefined}]
       \/ call \in [fn : {"allCities"}, distinct : DistinctLocations]
    /\ ret = <<>>
    /\ DbIdle
NextCity == CallCityOf \/ CallAllCities
SpecCity == InitCity /\ [][NextCity]_vars

InitMatch ==
    /\ call \in [fn : {"pickMatchingCities"},
                 allCities : Arrays(CityStrings, MaxCities),
                 query : QueryStrings]
    /\ ret = <<>>
    /\ DbIdle
NextMatch == CallPickMatchingCities
SpecMatch == InitMatch /\ [][NextMatch]_vars

\* the Matcher on arrays of named cities
MaxNamedCities == 3
Brooklyn == <<"B","r","o","o","k","l","y","n">>
Queens == <<"Q","u","e","e","n","s">>
Bronx == <<"B","r","o","n","x">>
xyz123 == <<"x","y","z","1","2","3">>
NamedCities == {Brooklyn, Queens, Bronx}
NamedQueries == {brooklin, brookln, xyz123, queens, undefined}

InitNamed ==
    /\ call \in [fn : {"pickMatchingCities"},
                 allCities : Arrays(NamedCities, MaxNamedCities),
                 query : NamedQueries]
    /\ ret = <<>>
    /\ DbIdle
NextNamed == CallPickMatchingCities
SpecNamed == InitNamed /\ [][NextNamed]_vars

\* levenshtein on the normalized keys of named cities and queries
NamedKeys ==
    {normLetters(s) : s \in NamedCities \cup (NamedQueries \ {undefined})}
    \cup {<<>>, <<"b","r","o","o","k">>, <<"b","r","o","n","c","s">>}

InitNamedKeys ==
    /\ call \in [fn : {"levenshtein"}, a : NamedKeys, b : NamedKeys]
    /\ ret = <<>>
    /\ DbIdle
NextNamedKeys == CallLevenshtein
SpecNamedKeys == InitNamedKeys /\ [][NextNamedKeys]_vars

---------------------------------------------------------------------------
(* Reference notions the properties are stated with *)

\* t occurs in s as a contiguous block
IsSubstring(t, s) == \E i \in 0..Len(s) : \E j \in i..Len(s) : SubSeq(s, i + 1, j) = t

IsPrefix(t, s) == \E j \in 0..Len(s) : SubSeq(s, 1, j) = t

RECURSIVE EditDistance(_, _)
\* the classic Levenshtein distance, by its recursive definition
EditDistance(a, b) ==
    IF a = <<>> THEN Len(b)
    ELSE IF b = <<>> THEN Len(a)
    ELSE IF Head(a) = Head(b) THEN EditDistance(Tail(a), Tail(b))
    ELSE 1 + Min3(EditDistance(Tail(a), b),
                  EditDistance(a, Tail(b)),
                  EditDistance(Tail(a), Tail(b)))

Returned(f) == call.fn = f /\ ret # <<>>

---------------------------------------------------------------------------
(* Properties of the Matcher *)

\* C1: every city the Matcher returns is one of the candidates it was given; the
\* raw query is in the result only if it is itself a candidate.
C1_MatcherSubset ==
    Returned("pickMatchingCities") =>
        /\ ret[1] \subseteq Range(call.allCities)
        /\ call.query \in ret[1] => call.query \in Range(call.allCities)

\* C1 witness: a non-empty result for a query that is none of the candidates
C1_Witness ==
    /\ Returned("pickMatchingCities")
    /\ ret[1] # {}
    /\ call.query \notin Range(call.allCities)
    /\ trim(orEmpty(call.query)) \notin Range(call.allCities)

\* the acceptance rule of the Matcher as the contract words it, for candidate c
C4_Rule(c, query) ==
    LET cn == normLetters(c)
        qn == normLetters(query)
    IN  /\ cn # <<>>
        /\ \/ IsSubstring(toLowerCase(query), toLowerCase(c))
           \/ IsSubstring(qn, cn)
           \/ IsPrefix(qn, cn)
           \/ EditDistance(cn, qn) <= 2

\* C4 (as stated): for a non-empty query, a candidate is in the result if and
\* only if its normalized key is non-empty and the raw or normalized substring
\* test, the prefix test or edit distance <= 2 holds.
C4_AsStated ==
    (Returned("pickMatchingCities") /\ orEmpty(call.query) # <<>>) =>
        \A c \in Range(call.allCities) : (c \in ret[1]) <=> C4_Rule(c, call.query)

\* C4 (amended): the same equivalence for every query that is non-empty after
\* trimming whitespace; a candidate with an empty normalized key is never matched.
C4_MatcherRule ==
    (Returned("pickMatchingCities") /\ trim(orEmpty(call.query)) # <<>>) =>
        \A c \in Range(call.allCities) :
            /\ (c \in ret[1]) <=> C4_Rule(c, call.query)
            /\ normLetters(c) = <<>> => c \notin ret[1]

\* C4 witness: "ba" is matched by "ab" through the edit distance alone (2), and
\* the candidate "1", whose key is empty, is not matched
C4_Witness ==
    /\ Returned("pickMatchingCities")
    /\ call.query = <<"a", "b">>
    /\ call.allCities = << <<"b", "a">>, <<"1">> >>
    /\ ret[1] = { <<"b", "a">> }

---------------------------------------------------------------------------
(* Properties of the Distance Scorer *)

\* C5: levenshtein(a, b) is the classic Levenshtein distance of a and b.
C5_LevenshteinClassic ==
    Returned("levenshtein") => ret[1] = EditDistance(call.a, call.b)

\* C5 witness: "abc" -> "bca" takes one deletion and one insertion
C5_Witness ==
    /\ Returned("levenshtein")
    /\ call.a = <<"a", "b", "c">>
    /\ call.b = <<"b", "c", "a">>
    /\ ret[1] = 2

\* C6: the edit distance is symmetric: levenshtein(a, b) = levenshtein(b, a).
C6_LevenshteinSymmetric ==
    Returned("levenshtein") => ret[1] = levenshtein(call.b, call.a)

\* C6 witness: strings of different lengths with no common character
C6_Witness ==
    /\ Returned("levenshtein")
    /\ call.a = <<"a", "b">>
    /\ call.b = <<"c">>
    /\ ret[1] = 2

\* C7: levenshtein(a, a) = 0 and levenshtein(a, "") = levenshtein("", a) = length(a),
\* also for a = "".
C7_LevenshteinBoundary ==
    Returned("levenshtein") =>
        /\ call.a = call.b => ret[1] = 0
        /\ call.b = <<>> => ret[1] = Len(call.a)
        /\ call.a = <<>> => ret[1] = Len(call.b)

\* C7 witness: a non-empty string against itself
C7_Witness ==
    /\ Returned("levenshtein")
    /\ call.a = <<"a", "b", "a">>
    /\ call.b = call.a
    /\ ret[1] = 0

---------------------------------------------------------------------------
(* Properties of the Normalizer *)

\* the positions of s whose lowercased character is one of a..z
LetterPositions(s) == {i \in DOMAIN s : toLowerChar(s[i]) \in AZ}

\* the k-th smallest element of the set of positions P
Nth(P, k) == CHOOSE i \in P : Cardinality({j \in P : j <= i}) = k

\* C8: normLetters returns the input lowercased, with every character outside
\* a..z deleted and the others in their original order; "St. Paul" and "stpaul"
\* give the same key; empty or missing input gives the empty key.
C8_NormLettersContract ==
    Returned("normLetters") =>
        LET s == IF call.s = undefined THEN <<>> ELSE call.s
            out == ret[1]
            P == LetterPositions(s)
        IN  /\ Len(out) = Cardinality(P)
            /\ \A k \in 1..Len(out) : out[k] = toLowerChar(s[Nth(P, k)])
            /\ \A k \in 1..Len(out) : out[k] \notin {" ", "-", "'", ".", "1"}
            /\ call.s \in {StPaul, stpaul} => out = stpaul
            /\ call.s \in {<<>>, undefined} => out = <<>>

\* C8 witness: "St. Paul" normalized to "stpaul"
C8_Witness ==
    /\ Returned("normLetters")
    /\ call.s = StPaul
    /\ ret[1] = stpaul

\* C9: normLetters(s) has only lowercase ASCII letters, and normalizing it again
\* changes nothing.
C9_NormLettersIdempotent ==
    Returned("normLetters") =>
        /\ \A k \in DOMAIN ret[1] : ret[1][k] \in AZ
        /\ normLetters(ret[1]) = ret[1]

\* C9 witness: an input with an uppercase letter and a digit
C9_Witness ==
    /\ Returned("normLetters")
    /\ call.s = <<"B", "1", "a">>
    /\ ret[1] = <<"b", "a">>

---------------------------------------------------------------------------
(* Properties of the City Extractor *)

\* r is s without its leading and trailing whitespace
IsTrimOf(r, s) ==
    /\ r # <<>> => (r[1] \notin WhiteSpace /\ r[Len(r)] \notin WhiteSpace)
    /\ \E i \in 0..Len(s) :
          /\ i + Len(r) <= Len(s)
          /\ SubSeq(s, i + 1, i + Len(r)) = r
          /\ \A k \in 1..i : s[k] \in WhiteSpace
          /\ \A k \in (i + Len(r) + 1)..Len(s) : s[k] \in WhiteSpace

\* pre is the part of s before its first comma, the whole of s without a comma
IsBeforeFirstComma(pre, s) ==
    /\ IsPrefix(pre, s)
    /\ \A k \in DOMAIN pre : pre[k] # ","
    /\ Len(pre) = Len(s) \/ s[Len(pre) + 1] = ","

C10_CityOfContract(location, r) ==
    LET s == IF location = undefined THEN <<>> ELSE location
    IN  /\ \E p \in 0..Len(s) : /\ IsBeforeFirstComma(SubSeq(s, 1, p), s)
                                /\ IsTrimOf(r, SubSeq(s, 1, p))
        /\ (\A k \in DOMAIN s : s[k] # ",") => IsTrimOf(r, s)
        /\ s = <<>> => r = <<>>

\* C10: cityOf returns the text before the first comma, trimmed; the whole
\* trimmed text without a comma; the empty string for empty or missing input;
\* and the candidate cities are exactly the non-empty city tokens of the
\* locations, so the empty token is never a candidate.
C10_CityOf ==
    /\ Returned("cityOf") => C10_CityOfContract(call.location, ret[1])
    /\ Returned("allCities") =>
          /\ <<>> \notin Range(ret[1])
          /\ \A c \in Range(ret[1]) :
                \E d \in Range(call.distinct) : C10_CityOfContract(d, c)
          /\ \A d \in Range(call.distinct) :
                \/ cityOf(d) \in Range(ret[1])
                \/ C10_CityOfContract(d, <<>>)

\* C10 witness: of the locations " ," and "a," the first has an empty city
\* token, and only "a" becomes a candidate
C10_Witness ==
    /\ Returned("allCities")
    /\ call.distinct = << <<" ", ",">>, <<"a", ",">> >>
    /\ ret[1] = << <<"a">> >>

---------------------------------------------------------------------------
(* Properties of the search, GET /api/listings *)

\* a search that was answered with a list of rows
Searched == resp.op = "search" /\ resp.status = 200

\* the Matcher's result for a location query against the cities of the stored listings
MatcherOnCorpus(loc) == pickMatchingCities(allCitiesOf(distinctLocations(listings)), loc)

\* some field of listing l contains text t, letter case ignored
ContainsText(l, t) ==
    \E field \in {l.title, l.description, l.tags, l.location} :
        IsSubstring(toLowerCase(t), toLowerCase(field))

Ids(rows) == {rows[i].id : i \in DOMAIN rows}

\* C2 (as stated): a search with a non-empty loc for which the Matcher returns no
\* city answers the empty list, whatever q is.
C2_AsStated ==
    (Searched /\ orEmpty(resp.req.loc) # <<>> /\ MatcherOnCorpus(resp.req.loc) = {}) =>
        resp.body = <<>>

\* C2 (amended): a search answered with a list, whose loc is non-empty after
\* trimming whitespace and for which the Matcher returns no city, answers the
\* empty list, whatever q is.
C2_NoFallback ==
    (Searched /\ trim(orEmpty(resp.req.loc)) # <<>> /\ MatcherOnCorpus(resp.req.loc) = {}) =>
        resp.body = <<>>

\* C2 witness: a listing whose text matches q "bike" is stored, loc "atlantis"
\* matches no city, and the public search answered the empty list
C2_Witness ==
    /\ Searched
    /\ ~resp.req.mine
    /\ resp.req.q = <<"b","i","k","e">>
    /\ resp.req.loc = <<"a","t","l","a","n","t","i","s">>
    /\ \E l \in listings : ContainsText(l, resp.req.q)
    /\ MatcherOnCorpus(resp.req.loc) = {}
    /\ resp.body = <<>>

\* C3: a public search without loc answers exactly the stored listings of which
\* the title, description, tags or location contains q as a case-insensitive
\* substring (all stored listings when q is empty), whatever their city.
C3_TextFilterOnly ==
    (Searched /\ ~resp.req.mine /\ orEmpty(resp.req.loc) = <<>>) =>
        LET q == trim(orEmpty(resp.req.q))
        IN  Ids(resp.body) = {l.id : l \in {x \in listings : q = <<>> \/ ContainsText(x, q)}}

---------------------------------------------------------------------------
(* The empty query *)

\* a query that is missing, empty or made of whitespace only
IsBlank(query) ==
    query = undefined \/ \A i \in DOMAIN query : query[i] \in WhiteSpace

\* C11: for an empty query (also a missing or a whitespace-only one) the Matcher
\* returns the empty set, whatever the candidate cities are.
C11_EmptyQueryMatchesNothing ==
    (Returned("pickMatchingCities") /\ IsBlank(call.query)) => ret[1] = {}

\* C11 witness: a whitespace-only query against a candidate with a non-empty key
C11_Witness ==
    /\ Returned("pickMatchingCities")
    /\ call.query = <<" ">>
    /\ \E i \in DOMAIN call.allCities : normLetters(call.allCities[i]) # <<>>
    /\ ret[1] = {}

---------------------------------------------------------------------------
(* The location filter of the search *)

\* the rows of step 1 of an answered search: the text filter and, with mine, the
\* owner filter, before any narrowing by location
StepOneRows ==
    LET qRaw == toLowerCase(trim(orEmpty(resp.req.q)))
    IN  IF resp.req.mine THEN baseRowsForUser(qRaw, resp.req.me.id) ELSE baseRowsPublic(qRaw)

\* C12: when loc is non-empty and the Matcher returns some city, the response is
\* exactly the step-1 rows whose normalized city key is the normalized key of a
\* matched city, in the order of step 1.
C12_FilterByMatchedKeys ==
    (Searched /\ orEmpty(resp.req.loc) # <<>> /\ MatcherOnCorpus(resp.req.loc) # {}) =>
        LET keys == {normLetters(c) : c \in MatcherOnCorpus(resp.req.loc)}
        IN  resp.body =
                SelectSeq(StepOneRows, LAMBDA r : normLetters(cityOf(r.location)) \in keys)

\* C12 witness: "tory" matches Troy and not Rye; both listings pass step 1 and
\* the answer holds the Troy listing alone
C12_Witness ==
    /\ Searched
    /\ resp.req.loc = <<"t","o","r","y">>
    /\ {StepOneRows[i].location : i \in DOMAIN StepOneRows} = {RyeNY, TroyNY}
    /\ MatcherOnCorpus(resp.req.loc) = { <<"T","r","o","y">> }
    /\ Len(resp.body) = 1
    /\ resp.body[1].location = TroyNY

\* C13: whatever creations, updates, deletions and admin deletions came before,
\* the candidate cities of a search with a loc are exactly the distinct non-empty
\* city tokens of the listings stored when it is handled, of all owners and
\* whatever q and mine are; so the answer holds the step-1 rows of the cities
\* that some stored listing has and that the acceptance rule matches, and no
\* row is matched through a city no stored listing has any more.
C13_CandidatesAreStoredCities ==
    (Searched /\ trim(orEmpty(resp.req.loc)) # <<>>) =>
        LET stored == {cityOf(l.location) : l \in listings} \ {<<>>}
            loc == trim(resp.req.loc)
        IN  /\ Range(resp.allCities) = stored
            /\ \A i, j \in DOMAIN resp.allCities :
                   resp.allCities[i] = resp.allCities[j] => i = j
            /\ resp.body = SelectSeq(StepOneRows, LAMBDA r :
                                \E c \in stored : /\ C4_Rule(c, loc)
                                                  /\ normLetters(c) = normLetters(cityOf(r.location)))

\* C13 witness: two listings were created and one is stored now, a sofa of user 2
\* in Troy; user 1 searches their own listings for "bike" near "tory": Troy is
\* the one candidate city, and nothing is answered
C13_Witness ==
    /\ Searched
    /\ nextId = 3
    /\ \E l \in listings : /\ listings = {l}
                            /\ l.user_id = 2
                            /\ l.description = Sofa
                            /\ l.location = TroyNY
    /\ resp.req.me = UserA
    /\ resp.req.mine
    /\ resp.req.q = <<"b","i","k","e">>
    /\ resp.req.loc = <<"t","o","r","y">>
    /\ resp.allCities = << <<"T","r","o","y">> >>
    /\ resp.body = <<>>

---------------------------------------------------------------------------
(* The worked examples *)

\* C14: with a listing in "Brooklyn, NY" and one in "Queens, NY" stored, the
\* public search with an empty q and loc "brookln" answers the Brooklyn listings
\* and no Queens listing.
C14_BrooklnFindsBrooklyn ==
    (/\ Searched
     /\ ~resp.req.mine
     /\ resp.req.query.q = Missing
     /\ resp.req.query.loc = Str(brookln)
     /\ \E l \in listings : l.location = BrooklynNY
     /\ \E l \in listings : l.location = QueensNY) =>
        /\ Ids(resp.body) = {l.id : l \in {x \in listings : x.location = BrooklynNY}}
        /\ \A i \in DOMAIN resp.body : resp.body[i].location # QueensNY

\* C14 witness: both listings are stored and the search answered one row, the
\* Brooklyn listing
C14_Witness ==
    /\ Searched
    /\ ~resp.req.mine
    /\ resp.req.query.q = Missing
    /\ resp.req.query.loc = Str(brookln)
    /\ {l.location : l \in listings} = {BrooklynNY, QueensNY}
    /\ Len(resp.body) = 1
    /\ resp.body[1].location = BrooklynNY

\* C15: for the candidates {"Brooklyn"} and the query "brooklin" the Matcher
\* returns {"Brooklyn"}.
C15_BrooklinMatchesBrooklyn ==
    (/\ Returned("pickMatchingCities")
     /\ Range(call.allCities) = {Brooklyn}
     /\ call.query = brooklin) => ret[1] = {Brooklyn}

\* C15 witness: the call was made with the one candidate and answered it
C15_Witness ==
    /\ Returned("pickMatchingCities")
    /\ call.allCities = <<Brooklyn>>
    /\ call.query = brooklin
    /\ ret[1] = {Brooklyn}

\* C16: for the candidates {"Brooklyn"} and the query "xyz123" the Matcher
\* returns the empty set.
C16_Xyz123MatchesNothing ==
    (/\ Returned("pickMatchingCities")
     /\ Range(call.allCities) = {Brooklyn}
     /\ call.query = xyz123) => ret[1] = {}

\* C16 witness: the call was made with the one candidate and answered no city
C16_Witness ==
    /\ Returned("pickMatchingCities")
    /\ call.allCities = <<Brooklyn>>
    /\ call.query = xyz123
    /\ ret[1] = {}

---------------------------------------------------------------------------
(* City tokens with one normalized key *)

\* C17: two candidate tokens with the same normalized key are both in the
\* Matcher's result or both left out, whatever the query and the other
\* candidates are; the search filters rows by these keys, so the listings of
\* both tokens are kept or dropped together.
C17_SameKeySameFate ==
    Returned("pickMatchingCities") =>
        \A c1, c2 \in Range(call.allCities) :
            normLetters(c1) = normLetters(c2) =>
                /\ (c1 \in ret[1]) <=> (c2 \in ret[1])
                /\ LET setNorm == {normLetters(c) : c \in ret[1]}
                   IN  normLetters(c1) \in setNorm <=> c2 \in ret[1]

\* C17 witness: "1a" holds the query "1a" as it stands, "a" holds it only after
\* normalization; they share the key "a" and both are returned
C17_Witness ==
    /\ Returned("pickMatchingCities")
    /\ call.query = <<"1", "a">>
    /\ call.allCities = << <<"1", "a">>, <<"a">> >>
    /\ ret[1] = { <<"1", "a">>, <<"a">> }

---------------------------------------------------------------------------
(* Query parameters that are no strings *)

\* a parameter as the search would see it had it not been given, when it is
\* missing or malformed
AsAbsent(v) == IF v.kind = "string" THEN v.value ELSE <<>>

\* C18: a q or loc parameter that is missing or malformed (an array, an object)
\* is treated as an absent filter: the search answers what it answers without
\* that parameter, and it never answers with an error because of it.
C18_MalformedIsAbsent ==
    resp.op = "search" =>
        /\ resp.status \in {200, 401}
        /\ resp.status = 200 =>
              resp.body = searchRows(resp.req.me, AsAbsent(resp.req.query.q),
                                     AsAbsent(resp.req.query.loc), resp.req.mine)

---------------------------------------------------------------------------
(* The images of a listing *)

---------------------------------------------------------------------------
(* The messages of a conversation *)

\* C20: whatever a member posts to a conversation is returned to the other
\* member (and to the poster) by GET /api/conversations/:id/messages, which
\* answers a member all the messages of the conversation, the earlier posted
\* before the later posted; a message once posted stays as it is.
C20_MessagesInPostingOrder ==
    [][
        /\ (resp'.op = "messages" /\ resp'.status = 200) =>
             LET stored == {m \in messages' : m.conversation_id = resp'.req.id}
                 body == resp'.body
             IN  /\ \E c \in conversations' : /\ c.id = resp'.req.id
                                                /\ resp'.req.me.id \in {c.a_user_id, c.b_user_id}
                 /\ {body[i].id : i \in DOMAIN body} = {m.id : m \in stored}
                 /\ \A i \in DOMAIN body : \E m \in stored :
                        /\ m.id = body[i].id
                        /\ m.body = body[i].body
                        /\ m.sender_id = body[i].sender_id
                 /\ \A i, j \in DOMAIN body : i < j => body[i].id < body[j].id
        /\ messages' # messages =>
             /\ resp'.op = "message" /\ resp'.status = 200
             /\ \E m \in messages' :
                    /\ messages' = messages \cup {m}
                    /\ m.conversation_id = resp'.req.id
                    /\ m.sender_id = resp'.req.me.id
                    /\ \A o \in messages : o.id < m.id
      ]_vars

\* C20 witness: user 2 posted "Hi!" and then user 1 posted "Yo"; user 1 got both,
\* "Hi!" first
C20_Witness ==
    /\ resp.op = "messages"
    /\ resp.status = 200
    /\ resp.req.me = UserA
    /\ Len(resp.body) = 2
    /\ resp.body[1].sender_id = UserB.id
    /\ resp.body[1].body = Hi
    /\ resp.body[2].sender_id = UserA.id
    /\ resp.body[2].body = Yo

---------------------------------------------------------------------------
(* Registration with an email and a password *)

\* C21: POST /api/register with a body of only an email not yet registered and
\* a password of at least 6 characters is answered with status 200, and the
\* user is created.
C21_RegisterWithEmailAndPassword ==
    [][\A body \in RegisterBodies :
          (/\ Register(body)
           /\ body.username = undefined /\ body.name = undefined
           /\ body.email # undefined /\ body.password # undefined
           /\ Len(body.password) >= 6
           /\ \A u \in users : u.email # toLowerCase(trim(body.email))) =>
              /\ resp'.status = 200
              /\ \E u \in users' : u.email = toLowerCase(trim(body.email))
      ]_vars

---------------------------------------------------------------------------
(* Short city names *)

\* C22: the threshold of 2 does not depend on the length of the name: a
\* candidate whose normalized key has 1 or 2 letters is matched by every query
\* whose normalized key has at most 2 letters and whose trimmed text is not
\* empty, whatever the letters are.
C22_ShortKeysAlwaysMatch ==
    (/\ Returned("pickMatchingCities")
     /\ trim(orEmpty(call.query)) # <<>>
     /\ Len(normLetters(call.query)) <= 2) =>
        \A c \in Range(call.allCities) :
            Len(normLetters(c)) \in 1..2 => c \in ret[1]

\* C22 witness: "aa" is matched by "bb", with which it shares no letter
C22_Witness ==
    /\ Returned("pickMatchingCities")
    /\ call.query = <<"b", "b">>
    /\ call.allCities = << <<"a", "a">> >>
    /\ ret[1] = { <<"a", "a">> }

---------------------------------------------------------------------------
(* The distance of "brooklyn" and "brooklin" *)

\* C23 (as stated): the edit distance between the normalized keys "brooklyn"
\* and "brooklin" is 2.
C23_AsStated ==
    (/\ Returned("levenshtein")
     /\ call.a = normLetters(Brooklyn)
     /\ call.b = brooklin) => ret[1] = 2

\* C23 (amended): the edit distance between the normalized keys "brooklyn" and
\* "brooklin" is 1, in either order of the arguments.
C23_DistanceIsOne ==
    (/\ Returned("levenshtein")
     /\ {call.a, call.b} = {normLetters(Brooklyn), brooklin}) => ret[1] = 1

\* C23 witness: levenshtein("brooklyn", "brooklin") returned 1
C23_Witness ==
    /\ Returned("levenshtein")
    /\ call.a = <<"b","r","o","o","k","l","y","n">>
    /\ call.b = <<"b","r","o","o","k","l","i","n">>
    /\ ret[1] = 1

---------------------------------------------------------------------------
(* The location filter only removes rows *)

RECURSIVE IsSubsequence(_, _)
\* s is t with some elements left out
IsSubsequence(s, t) ==
    IF s = <<>> THEN TRUE
    ELSE IF t = <<>> THEN FALSE
    ELSE IF Head(s) = Head(t) THEN IsSubsequence(Tail(s), Tail(t))
    ELSE IsSubsequence(s, Tail(t))

\* C24: the answer of a search with loc is a subsequence of the answer of the
\* same search (same requester, q and mine) without loc: the location filter adds
\* no row and reorders none, and every answer is strictly descending by id.
C24_FilterOnlyRemoves ==
    Searched =>
        /\ IsSubsequence(resp.body,
                         searchRows(resp.req.me, resp.req.q, undefined, resp.req.mine))
        /\ \A i, j \in DOMAIN resp.body : i < j => resp.body[i].id > resp.body[j].id

\* C24 witness: the search without loc answers two rows, and with loc "tory" the
\* second of them alone
C24_Witness ==
    /\ Searched
    /\ resp.req.loc = <<"t","o","r","y">>
    /\ LET base == searchRows(resp.req.me, resp.req.q, undefined, resp.req.mine)
       IN  /\ Len(base) = 2
           /\ base[1].id > base[2].id
           /\ resp.body = <<base[2]>>

---------------------------------------------------------------------------
(* Location queries without letters, and cities without letters *)

\* C25: for a loc whose trimmed text is not empty but whose normalized key is
\* (digits, punctuation), the Matcher returns every candidate city with a
\* non-empty normalized key, and the search keeps every step-1 row with a
\* non-empty normalized city instead of answering nothing.
C25_LetterlessLocKeepsAll ==
    (/\ Searched
     /\ trim(orEmpty(resp.req.loc)) # <<>>
     /\ normLetters(resp.req.loc) = <<>>) =>
        /\ MatcherOnCorpus(resp.req.loc) =
              {c \in {cityOf(l.location) : l \in listings} : normLetters(c) # <<>>}
        /\ resp.body =
              SelectSeq(StepOneRows, LAMBDA r : normLetters(cityOf(r.location)) # <<>>)

\* C25 witness: listings in "12, NY" and in another city pass step 1, loc is
\* "12", and the answer is the listing of the other city
C25_Witness ==
    /\ Searched
    /\ resp.req.loc = <<"1","2">>
    /\ Len(StepOneRows) = 2
    /\ \E i \in DOMAIN StepOneRows : StepOneRows[i].location = TwelveNY
    /\ Len(resp.body) = 1
    /\ resp.body[1].location \in {RyeNY, TroyNY}

\* C26 (as stated): whenever loc is non-empty, no listing whose city token has
\* an empty normalized key is in the answer.
C26_AsStated ==
    (Searched /\ orEmpty(resp.req.loc) # <<>>) =>
        \A i \in DOMAIN resp.body : normLetters(cityOf(resp.body[i].location)) # <<>>

\* C26 (amended): whenever loc is non-empty after trimming whitespace, no
\* listing whose city token has an empty normalized key is in the answer.
C26_NoKeylessCity ==
    (Searched /\ trim(orEmpty(resp.req.loc)) # <<>>) =>
        \A i \in DOMAIN resp.body : normLetters(cityOf(resp.body[i].location)) # <<>>

\* C26 witness: listings in "12, NY" and "Troy, NY" pass step 1, and the search
\* with loc "tory" answers the Troy listing alone
C26_Witness ==
    /\ Searched
    /\ resp.req.loc = <<"t","o","r","y">>
    /\ {StepOneRows[i].location : i \in DOMAIN StepOneRows} = {TwelveNY, TroyNY}
    /\ Len(resp.body) = 1
    /\ resp.body[1].location = TroyNY

(***************************************************************************)
(* The listings table and the listing_images table                         *)
(***************************************************************************)
rowsOfListing(id) == {r \in images : r.listing_id = id}

\* C27: after any sequence of create, update, delete and admin-delete
\* requests, accepted or rejected, every stored listing has between 1 and 10
\* rows in listing_images at the positions 0..n-1, its cover is the image at
\* position 0, and every row of listing_images belongs to a stored listing.
C27_ImagesConsistent ==
    /\ \A l \in listings :
          LET rows == rowsOfListing(l.id)
              n == Cardinality(rows)
          IN  /\ n \in 1..MaxImages
              /\ {r.position : r \in rows} = 0..(n - 1)
              /\ \E r \in rows : r.position = 0 /\ r.image_data = l.image_data
    /\ \A r \in images : \E l \in listings : l.id = r.listing_id

\* C27 witness: after the deletion of a listing, another listing has been
\* updated with ten images
C27_Witness ==
    /\ resp.op = "update"
    /\ resp.status = 200
    /\ Cardinality(rowsOfListing(resp.req.id)) = MaxImages
    /\ Cardinality(listings) < nextId - 1

(***************************************************************************)
(* One conversation per pair of users and listing                          *)
(***************************************************************************)
\* C28: after any sequence of POST /api/conversations requests there is at
\* most one conversation per unordered pair of users and listing, the case of
\* no listing included, and a repeated request for the same pair and listing
\* answers the id of the conversation that exists instead of creating one.
C28_OneConversationPerPairAndListing ==
    /\ \A c, d \in conversations :
          (/\ c.a_user_id = d.a_user_id
           /\ c.b_user_id = d.b_user_id
           /\ c.listing_id = d.listing_id) => c.id = d.id
    /\ (resp.op = "conversation" /\ resp.status = 200) =>
          \A c \in conversations :
             (/\ c.a_user_id = resp.body.a_user_id
              /\ c.b_user_id = resp.body.b_user_id
              /\ c.listing_id = resp.body.listing_id) => c.id = resp.body.id

(***************************************************************************)
(* Rejected updates and deletions                                          *)
(***************************************************************************)
\* C29: PUT or DELETE /api/listings/:id of an authenticated user who is neither
\* the owner of the listing nor an admin answers 403, and for an id that is
\* not stored answers 404; in both cases, and when a PUT carries invalid
\* images (400), the tables listings and listing_images are left unchanged.
C29_RejectedLeavesTablesAlone ==
    [][
        (Idle /\ resp'.op \in {"update", "delete"} /\ resp'.req.me # Anonymous) =>
            LET me == resp'.req.me
                found == {l \in listings : l.id = resp'.req.id}
            IN  /\ (found = {}) => resp'.status = 404
                /\ (\E l \in found : ~me.is_admin /\ l.user_id # me.id) => resp'.status = 403
                /\ (resp'.status \in {400, 403, 404}) => UNCHANGED <<listings, images>>
                /\ (resp'.status = 400) => resp'.op = "update"
    ]_vars

\* C29 witness: the owner's PUT with invalid images has been answered 400
\* while the listing holds its image rows
C29_Witness ==
    /\ resp.op = "update"
    /\ resp.status = 400
    /\ \E l \in listings : l.id = resp.req.id /\ l.user_id = resp.req.me.id
    /\ rowsOfListing(resp.req.id) # {}
=============================================================================
